---- MODULE Spec2Model ----
(***************************************************************************)
(* A model of the image-story-generator gateway: the three route handlers  *)
(* (/api/generate-story, /api/search, /api/generate-image), the provider   *)
(* adapters they dispatch to, the tenacity retry wrapper around every      *)
(* adapter method and the Replicate poll loop.                             *)
(*                                                                         *)
(* One behaviour is the handling of one request.  The provider is the      *)
(* environment: every outbound call is answered by a nondeterministic      *)
(* choice among HTTP answers, a timeout and a connection error.            *)
(***************************************************************************)
EXTENDS Integers, Sequences, FiniteSets, TLC

(***************************************************************************)
(* Program constants.                                                      *)
(***************************************************************************)
\* stop=stop_after_attempt(3)
stop_after_attempt == 3
\* wait=wait_exponential(multiplier=1, min=2, max=10)
wait_multiplier == 1
wait_min == 2
wait_max == 10
\* ReplicateService.generate_image: max_attempts = 30, time.sleep(2)
max_attempts == 30
poll_sleep == 2
\* Config.MAX_IMAGES_PER_REQUEST
MAX_IMAGES_PER_REQUEST == 10
REQUEST_TIMEOUT == 30
vision_timeout_factor == 2
image_timeout_factor == 3
\* validate_api_key: len(api_key.strip()) < 10
min_key_length == 10
\* generate_image route: len(prompt) > 4000
max_prompt_length == 4000

Max(a, b) == IF a >= b THEN a ELSE b
Min(a, b) == IF a <= b THEN a ELSE b

RECURSIVE Pow(_, _)
Pow(b, e) == IF e = 0 THEN 1 ELSE b * Pow(b, e - 1)

(***************************************************************************)
(* The environment: what a provider can answer to one outbound call.       *)
(* body abstracts the response body:                                       *)
(*   "ok"         JSON carrying the expected, non-empty result             *)
(*   "nofield"    a JSON object without the result field / error message   *)
(*   "errmsg"     a JSON object {"error": {"message": ...}}                *)
(*   "keyinvalid" as "errmsg", and the text mentions API_KEY_INVALID       *)
(*   "badentry"   JSON whose result list has an entry lacking a required   *)
(*                key (item['link'], item['contentUrl'])                   *)
(*   "text"       not JSON at all                                          *)
(***************************************************************************)
Statuses == {200, 201, 204, 400, 401, 404, 429, 500, 503}
Bodies == {"ok", "nofield", "errmsg", "keyinvalid", "badentry", "text"}

HttpAnswer(s, b) == [kind |-> "http", status |-> s, body |-> b, pstatus |-> "none"]
TimeoutAnswer == [kind |-> "timeout", status |-> 0, body |-> "none", pstatus |-> "none"]
ConnErrAnswer == [kind |-> "connerr", status |-> 0, body |-> "none", pstatus |-> "none"]
NoAnswer == [kind |-> "none", status |-> 0, body |-> "none", pstatus |-> "none"]

Answers == {HttpAnswer(s, b) : s \in Statuses, b \in Bodies}
             \cup {TimeoutAnswer, ConnErrAnswer}

\* A Replicate status poll: the JSON body of a 200 answer carries the
\* prediction's status; "canceled" stands for any value the loop does not name.
PredictionStatuses == {"starting", "processing", "canceled", "succeeded", "failed"}
PollStatuses == {200, 204, 404, 503}
PollAnswer(s, p) == [kind |-> "http", status |-> s, body |-> "ok", pstatus |-> p]
PollAnswers == {PollAnswer(200, p) : p \in PredictionStatuses}
                 \cup {PollAnswer(s, "none") : s \in PollStatuses \ {200}}
                 \cup {TimeoutAnswer, ConnErrAnswer}

(***************************************************************************)
(* What a call of an adapter method (or one attempt of it) ends with:      *)
(* a returned value, an APIError, tenacity's RetryError, or some other     *)
(* exception.                                                              *)
(***************************************************************************)
APIError(message, status_code, provider) ==
    [kind |-> "APIError", status |-> status_code, provider |-> provider, msg |-> message]
Returned(value) == [kind |-> "ok", status |-> 0, provider |-> "none", msg |-> value]
RetryError == [kind |-> "RetryError", status |-> 0, provider |-> "none", msg |-> "RetryError"]
OtherException(what) == [kind |-> "Exception", status |-> 0, provider |-> "none", msg |-> what]
Nothing == [kind |-> "none", status |-> 0, provider |-> "none", msg |-> "none"]

IsJSON(body) == body # "text"
\* response.json().get('error', {}).get('message', response.text)
ErrorMessage(body) == IF body \in {"errmsg", "keyinvalid"} THEN "provider_message" ELSE "raw_body"


(***************************************************************************)
(* One attempt of each adapter method: the body inside the try block and   *)
(* its except clauses, as a function of the provider's answer.             *)
(***************************************************************************)
\* OpenAIService.generate_story
OpenAIService_generate_story(ans) ==
    IF ans.kind = "timeout" THEN APIError("timeout", 408, "OpenAI")
    ELSE IF ans.kind = "connerr" THEN APIError("request_failed", 500, "OpenAI")
    ELSE IF ans.status = 401 THEN APIError("invalid_key", 401, "OpenAI")
    ELSE IF ans.status = 429 THEN APIError("rate_limit", 429, "OpenAI")
    ELSE IF ans.status # 200 THEN
        IF IsJSON(ans.body)
            THEN APIError(ErrorMessage(ans.body), ans.status, "OpenAI")
            ELSE APIError("request_failed", 500, "OpenAI")
    ELSE IF ans.body = "ok" THEN Returned("story")
    ELSE APIError("request_failed", 500, "OpenAI")

\* AnthropicService.generate_story
AnthropicService_generate_story(ans) ==
    IF ans.kind = "timeout" THEN APIError("timeout", 408, "Anthropic")
    ELSE IF ans.kind = "connerr" THEN APIError("request_failed", 500, "Anthropic")
    ELSE IF ans.status = 401 THEN APIError("invalid_key", 401, "Anthropic")
    ELSE IF ans.status = 429 THEN APIError("rate_limit", 429, "Anthropic")
    ELSE IF ans.status # 200 THEN
        IF IsJSON(ans.body)
            THEN APIError(ErrorMessage(ans.body), ans.status, "Anthropic")
            ELSE APIError("request_failed", 500, "Anthropic")
    ELSE IF ans.body = "ok" THEN Returned("story")
    ELSE APIError("request_failed", 500, "Anthropic")

\* GoogleGeminiService.generate_story
GoogleGeminiService_generate_story(ans) ==
    IF ans.kind = "timeout" THEN APIError("timeout", 408, "Google Gemini")
    ELSE IF ans.kind = "connerr" THEN APIError("request_failed", 500, "Google Gemini")
    ELSE IF ans.status = 400 THEN
        IF ~IsJSON(ans.body) THEN APIError("request_failed", 500, "Google Gemini")
        ELSE IF ans.body = "keyinvalid" THEN APIError("invalid_key", 401, "Google Gemini")
        ELSE APIError("raw_body", 400, "Google Gemini")
    ELSE IF ans.status = 429 THEN APIError("rate_limit", 429, "Google Gemini")
    ELSE IF ans.status # 200 THEN APIError("raw_body", ans.status, "Google Gemini")
    ELSE IF ~IsJSON(ans.body) THEN APIError("request_failed", 500, "Google Gemini")
    ELSE IF ans.body = "ok" THEN Returned("story")
    ELSE APIError("no_response", 500, "Google Gemini")

\* OpenAIImageService.generate_image
OpenAIImageService_generate_image(ans) ==
    IF ans.kind = "timeout" THEN APIError("timeout", 408, "OpenAI DALL-E")
    ELSE IF ans.kind = "connerr" THEN APIError("request_failed", 500, "OpenAI DALL-E")
    ELSE IF ans.status = 401 THEN APIError("invalid_key", 401, "OpenAI DALL-E")
    ELSE IF ans.status = 429 THEN APIError("rate_limit", 429, "OpenAI DALL-E")
    ELSE IF ans.status = 400 THEN
        IF IsJSON(ans.body)
            THEN APIError(ErrorMessage(ans.body), 400, "OpenAI DALL-E")
            ELSE APIError("request_failed", 500, "OpenAI DALL-E")
    ELSE IF ans.status # 200 THEN APIError("raw_body", ans.status, "OpenAI DALL-E")
    ELSE IF ans.body = "ok" THEN Returned("images")
    ELSE APIError("request_failed", 500, "OpenAI DALL-E")

\* StabilityAIService.generate_image
StabilityAIService_generate_image(ans) ==
    IF ans.kind = "timeout" THEN APIError("timeout", 408, "Stability AI")
    ELSE IF ans.kind = "connerr" THEN APIError("request_failed", 500, "Stability AI")
    ELSE IF ans.status = 401 THEN APIError("invalid_key", 401, "Stability AI")
    ELSE IF ans.status = 429 THEN APIError("rate_limit", 429, "Stability AI")
    ELSE IF ans.status # 200 THEN APIError("raw_body", ans.status, "Stability AI")
    ELSE IF ans.body = "ok" THEN Returned("images")
    ELSE APIError("request_failed", 500, "Stability AI")

\* GoogleSearchService.search_images.  Only requests' own exceptions are
\* caught: a non-JSON body raises requests' JSONDecodeError (a
\* RequestException), a missing key in an item raises KeyError, which
\* escapes; a payload without 'items' is an empty result.
GoogleSearchService_search_images_strict(ans) ==
    IF ans.kind = "timeout" THEN APIError("timeout", 408, "Google")
    ELSE IF ans.kind = "connerr" THEN APIError("request_failed", 500, "Google")
    ELSE IF ans.status = 401 THEN APIError("invalid_key", 401, "Google")
    ELSE IF ans.status = 429 THEN APIError("rate_limit", 429, "Google")
    ELSE IF ans.status # 200 THEN APIError("raw_body", ans.status, "Google")
    ELSE IF ~IsJSON(ans.body) THEN APIError("request_failed", 500, "Google")
    ELSE IF ans.body = "ok" THEN Returned("images")
    ELSE IF ans.body = "badentry" THEN OtherException("KeyError")
    ELSE APIError("no_response", 500, "Google")
GoogleSearchService_search_images(ans) ==
    IF ans.kind = "timeout" THEN APIError("timeout", 408, "Google")
    ELSE IF ans.kind = "connerr" THEN APIError("request_failed", 500, "Google")
    ELSE IF ans.status = 401 THEN APIError("invalid_key", 401, "Google")
    ELSE IF ans.status = 429 THEN APIError("rate_limit", 429, "Google")
    ELSE IF ans.status # 200 THEN APIError("raw_body", ans.status, "Google")
    ELSE IF ~IsJSON(ans.body) THEN APIError("request_failed", 500, "Google")
    ELSE IF ans.body = "ok" THEN Returned("images")
    ELSE IF ans.body = "badentry" THEN OtherException("KeyError")
    ELSE Returned("no_images")

\* BingSearchService.search_images
BingSearchService_search_images(ans) ==
    IF ans.kind = "timeout" THEN APIError("timeout", 408, "Bing")
    ELSE IF ans.kind = "connerr" THEN APIError("request_failed", 500, "Bing")
    ELSE IF ans.status = 401 THEN APIError("invalid_key", 401, "Bing")
    ELSE IF ans.status = 429 THEN APIError("rate_limit", 429, "Bing")
    ELSE IF ans.status # 200 THEN APIError("raw_body", ans.status, "Bing")
    ELSE IF ~IsJSON(ans.body) THEN APIError("request_failed", 500, "Bing")
    ELSE IF ans.body = "ok" THEN Returned("images")
    ELSE IF ans.body = "badentry" THEN OtherException("KeyError")
    ELSE Returned("no_images")

\* ReplicateService.generate_image, up to prediction_id = prediction['id']:
\* the submission.  Returned("prediction") means the poll loop is entered.
ReplicateService_create_prediction(ans) ==
    IF ans.kind = "timeout" THEN APIError("timeout", 408, "Replicate")
    ELSE IF ans.kind = "connerr" THEN APIError("request_failed", 500, "Replicate")
    ELSE IF ans.status = 401 THEN APIError("invalid_key", 401, "Replicate")
    ELSE IF ans.status = 429 THEN APIError("rate_limit", 429, "Replicate")
    ELSE IF ans.status \notin {200, 201} THEN APIError("raw_body", ans.status, "Replicate")
    ELSE IF ans.body = "ok" THEN Returned("prediction")
    ELSE APIError("request_failed", 500, "Replicate")

\* ReplicateService.generate_image, one iteration of the poll loop after its
\* sleep: Nothing means the loop goes on.
ReplicateService_poll(ans) ==
    IF ans.kind = "timeout" THEN APIError("timeout", 408, "Replicate")
    ELSE IF ans.kind = "connerr" THEN APIError("request_failed", 500, "Replicate")
    ELSE IF ans.status # 200 THEN APIError("poll_failed", ans.status, "Replicate")
    ELSE IF ans.pstatus = "succeeded" THEN Returned("output")
    ELSE IF ans.pstatus = "failed" THEN APIError("generation_failed", 500, "Replicate")
    ELSE Nothing

(***************************************************************************)
(* The tenacity wrapper.                                                   *)
(***************************************************************************)
\* wait_exponential.__call__ for the attempt that just failed:
\* max(max(0, min), min(multiplier * exp_base ** (attempt_number - 1), max)),
\* exp_base left at its default of 2.
wait_exponential(attempt_number) ==
    Max(Max(0, wait_min),
        Min(wait_multiplier * Pow(2, attempt_number - 1), wait_max))

\* retry= of each decorator.  The services of llm_service.py and
\* image_gen_service.py pass none (the default retries on any exception);
\* google_search.py passes retry_if_exception_type(RequestException).
SearchAdapters == {"Google", "Bing"}
retry_if_exception(adapter, exc) ==
    IF adapter \in SearchAdapters
        THEN exc.kind = "RequestException"
        ELSE exc.kind # "ok"


(***************************************************************************)
(* Requests.  One record shape for the three endpoints; a field an         *)
(* endpoint does not read keeps its default.                               *)
(*   key_len     length of the stripped api_key                            *)
(*   has_data    request.get_json() is a non-empty object                  *)
(*   params_ok   the float()/int() conversions of the sampling parameters  *)
(*               succeed                                                   *)
(*   images      how the collection of files and image_urls ends:          *)
(*               "ok", or validate_image rejects a file ("invalid_file"),  *)
(*               Image.open raises on a file ("file_undecodable"),         *)
(*               image_urls is not JSON ("bad_json") or is JSON that       *)
(*               cannot be iterated ("urls_not_list"), the fetch of a URL  *)
(*               fails ("url_unreachable"), Image.open raises on what a    *)
(*               URL returned ("url_undecodable"), or Image.open, which    *)
(*               reads the header only, accepts an image whose pixel data  *)
(*               cannot be decoded ("truncated")                           *)
(*   image_count len(images) when the collection ends well                 *)
(*   url_count   the number of entries of image_urls                       *)
(*   few_shot_ok few_shot_examples parses as JSON                          *)
(*   query_empty, cse_empty, prompt_len: the stripped query / cse_id /     *)
(*               prompt                                                    *)
(***************************************************************************)
KeyLengths == {0, min_key_length - 1, min_key_length}
ImageCounts == {0, 1, MAX_IMAGES_PER_REQUEST, MAX_IMAGES_PER_REQUEST + 1}
PromptLengths == {0, 1, max_prompt_length + 1}

UrlCounts == {0, 1}
Request(e, p, k, d, po, im, n, fs, q, c, pl, u) ==
    [endpoint |-> e, provider |-> p, key_len |-> k, has_data |-> d,
     params_ok |-> po, images |-> im, image_count |-> n, few_shot_ok |-> fs,
     query_empty |-> q, cse_empty |-> c, prompt_len |-> pl, url_count |-> u]

StoryRequests ==
    {r \in {Request("story", p, k, TRUE, po, "ok", n, fs, FALSE, FALSE, 1, u) :
                p \in {"openai", "anthropic", "google", "other"}, k \in KeyLengths,
                po \in BOOLEAN, n \in ImageCounts, fs \in BOOLEAN, u \in UrlCounts} :
        r.url_count <= r.image_count}
    \cup
    {Request("story", p, min_key_length, TRUE, TRUE, im, 0, TRUE, FALSE, FALSE, 1, 0) :
        p \in {"openai", "other"},
        im \in {"invalid_file", "file_undecodable", "bad_json", "urls_not_list"}}
    \cup
    {Request("story", p, min_key_length, TRUE, TRUE, im, 0, TRUE, FALSE, FALSE, 1, 1) :
        p \in {"openai", "other"}, im \in {"url_unreachable", "url_undecodable"}}
    \cup
    {Request("story", p, min_key_length, TRUE, TRUE, "truncated", 1, TRUE, FALSE,
             FALSE, 1, u) :
        p \in {"openai", "anthropic", "google"}, u \in UrlCounts}

SearchRequests ==
    {Request("search", p, k, d, TRUE, "ok", 1, TRUE, q, c, 1, 0) :
        p \in {"google", "bing", "other"}, k \in KeyLengths, d \in BOOLEAN,
        q \in BOOLEAN, c \in BOOLEAN}

ImageRequests ==
    {Request("image", p, k, d, TRUE, "ok", 1, TRUE, FALSE, FALSE, pl, 0) :
        p \in {"openai", "stability", "replicate", "other"}, k \in KeyLengths,
        d \in BOOLEAN, pl \in PromptLengths}

Requests == StoryRequests \cup SearchRequests \cup ImageRequests

(***************************************************************************)
(* Responses: jsonify(...), status.  provider is "absent" when the         *)
(* envelope has no provider key and "null" when the key holds None.        *)
(***************************************************************************)
Response(status, error, provider, result, msg) ==
    [status |-> status, error |-> error, provider |-> provider,
     result |-> result, msg |-> msg]
NoResponse == Response(0, FALSE, "absent", FALSE, "none")
ErrorOnly(status, msg) == Response(status, TRUE, "absent", FALSE, msg)

\* utils/validators.py
validate_api_key_any(key_len) == "valid"
validate_api_key(key_len) ==
    IF key_len = 0 THEN "api_key_required"
    ELSE IF key_len < min_key_length THEN "api_key_too_short"
    ELSE "valid"

validate_image_count_lenient(count) ==
    IF count > MAX_IMAGES_PER_REQUEST + 1 THEN "too_many_images"
    ELSE IF count < 0 THEN "at_least_one_image"
    ELSE "valid"
validate_image_count(count) ==
    IF count > MAX_IMAGES_PER_REQUEST THEN "too_many_images"
    ELSE IF count < 1 THEN "at_least_one_image"
    ELSE "valid"

\* The adapter a route dispatches to, named as the adapter names itself in
\* its APIErrors; "none" when the provider is not one the route knows.
Adapter(r) ==
    IF r.endpoint = "story" THEN
        CASE r.provider = "openai" -> "OpenAI"
          [] r.provider = "anthropic" -> "Anthropic"
          [] r.provider = "google" -> "Google Gemini"
          [] OTHER -> "none"
    ELSE IF r.endpoint = "search" THEN
        CASE r.provider = "google" -> "Google"
          [] r.provider = "bing" -> "Bing"
          [] OTHER -> "none"
    ELSE
        CASE r.provider = "openai" -> "OpenAI DALL-E"
          [] r.provider = "stability" -> "Stability AI"
          [] r.provider = "replicate" -> "Replicate"
          [] OTHER -> "none"

\* routes/story_generation.py, generate_story up to the provider dispatch:
\* the response of an early return, or NoResponse when an adapter is called.
\* A failed image load raises APIError(..., 400) with no provider, which the
\* handler's except APIError clause answers; the TypeError of iterating
\* image_urls that is not a list is answered by its except Exception clause.
generate_story_validation(r) ==
    IF validate_api_key(r.key_len) # "valid"
        THEN ErrorOnly(401, validate_api_key(r.key_len))
    ELSE IF ~r.params_ok THEN ErrorOnly(400, "invalid_parameter_value")
    ELSE IF r.images = "invalid_file" THEN ErrorOnly(400, "invalid_image")
    ELSE IF r.images = "file_undecodable"
        THEN Response(400, TRUE, "null", FALSE, "file_load_failed")
    ELSE IF r.images = "bad_json" THEN ErrorOnly(400, "invalid_image_urls_json")
    ELSE IF r.images = "urls_not_list" THEN ErrorOnly(500, "TypeError")
    ELSE IF r.images \in {"url_unreachable", "url_undecodable"}
        THEN Response(400, TRUE, "null", FALSE, "url_load_failed")
    ELSE IF validate_image_count(r.image_count) # "valid"
        THEN ErrorOnly(400, validate_image_count(r.image_count))
    ELSE IF ~r.few_shot_ok THEN ErrorOnly(400, "invalid_few_shot_examples_json")
    ELSE IF Adapter(r) = "none" THEN ErrorOnly(400, "invalid_provider")
    ELSE NoResponse

\* routes/story_generation.py, generate_story: the number of image URLs
\* the handler has fetched when it returns or calls the adapter.  The URLs
\* are fetched in the image collection, which follows the API key and
\* sampling parameter checks and the files, and precedes the image count,
\* few-shot and provider checks; a failing URL (the first, here) ends it.
image_url_fetches(r) ==
    IF validate_api_key(r.key_len) # "valid" THEN 0
    ELSE IF ~r.params_ok THEN 0
    ELSE IF r.images \in {"invalid_file", "file_undecodable", "bad_json",
                          "urls_not_list"} THEN 0
    ELSE IF r.images \in {"url_unreachable", "url_undecodable"} THEN 1
    ELSE r.url_count

\* The timeout an adapter passes to requests.post / requests.get
adapter_timeout_base(adapter) == REQUEST_TIMEOUT
adapter_timeout(adapter) ==
    IF adapter \in {"OpenAI", "Anthropic", "Google Gemini"}
        THEN REQUEST_TIMEOUT * vision_timeout_factor
    ELSE IF adapter \in {"OpenAI DALL-E", "Stability AI"}
        THEN REQUEST_TIMEOUT * image_timeout_factor
    ELSE REQUEST_TIMEOUT

\* routes/image_search.py, search_images up to the provider dispatch
search_images_validation_no_cse(r) ==
    IF ~r.has_data THEN ErrorOnly(400, "no_data")
    ELSE IF r.query_empty THEN ErrorOnly(400, "query_required")
    ELSE IF Adapter(r) = "none" THEN ErrorOnly(400, "invalid_provider")
    ELSE IF validate_api_key(r.key_len) # "valid"
        THEN ErrorOnly(401, validate_api_key(r.key_len))
    ELSE NoResponse
search_images_validation(r) ==
    IF ~r.has_data THEN ErrorOnly(400, "no_data")
    ELSE IF r.query_empty THEN ErrorOnly(400, "query_required")
    ELSE IF Adapter(r) = "none" THEN ErrorOnly(400, "invalid_provider")
    ELSE IF validate_api_key(r.key_len) # "valid"
        THEN ErrorOnly(401, validate_api_key(r.key_len))
    ELSE IF r.provider = "google" /\ r.cse_empty THEN ErrorOnly(400, "cse_id_required")
    ELSE NoResponse

\* routes/image_generation.py, generate_image up to the provider dispatch
generate_image_validation(r) ==
    IF ~r.has_data THEN ErrorOnly(400, "no_data")
    ELSE IF r.prompt_len = 0 THEN ErrorOnly(400, "prompt_required")
    ELSE IF r.prompt_len > max_prompt_length THEN ErrorOnly(400, "prompt_too_long")
    ELSE IF validate_api_key(r.key_len) # "valid"
        THEN ErrorOnly(401, validate_api_key(r.key_len))
    ELSE IF Adapter(r) = "none" THEN ErrorOnly(400, "invalid_provider")
    ELSE NoResponse

\* The tail of every route handler: the success envelope, the
\* except APIError clause and the except Exception clause.
route_response_with_provider(r, res) ==
    IF res.kind = "ok" THEN Response(200, FALSE, r.provider, TRUE, res.msg)
    ELSE IF res.kind = "APIError" THEN Response(res.status, TRUE, res.provider, FALSE, res.msg)
    ELSE Response(500, TRUE, r.provider, FALSE, res.msg)
route_response(r, res) ==
    IF res.kind = "ok" THEN Response(200, FALSE, r.provider, TRUE, res.msg)
    ELSE IF res.kind = "APIError" THEN Response(res.status, TRUE, res.provider, FALSE, res.msg)
    ELSE ErrorOnly(500, res.msg)


(***************************************************************************)
(* Outbound payloads: what the story route and the vision adapters make of *)
(* the supplied few-shot examples and images, and what the search route    *)
(* and the search adapters make of num_results.                            *)
(*                                                                         *)
(* A supplied example is [id, image, story]: id is its position in the     *)
(* supplied list, image / story tell whether the keys 'image_base64' /     *)
(* 'story' are present.  A request image is named by a number.             *)
(***************************************************************************)
\* examples[:5] in the route, few_shot_examples[:5] in the adapters
few_shot_limit == 5
\* min(int(data.get('num_results', 10)), 10) and min(num_results, 10)
max_results == 10

\* Bounds of the inputs
MaxExamples == 6
MaxImagesIn == 2
MaxNumResults == 12

\* s[:n]
TakeAll(s, n) == s
Take(s, n) == IF Len(s) <= n THEN s ELSE SubSeq(s, 1, n)

\* 'image_base64' in ex and 'story' in ex
WellFormedExample(ex) == ex.image /\ ex.story

\* routes/story_generation.py, generate_story: few-shot parsing.  None and
\* the empty list are both the empty sequence (the adapters test truthiness).
story_few_shot_examples(examples) ==
    IF examples = <<>>
        THEN <<>>
        ELSE SelectSeq(Take(examples, few_shot_limit), WellFormedExample)

\* One turn of the outbound message list.  kind is "example" (user turn of
\* a few-shot pair), "story" (its assistant/model turn) or "request"; ex is
\* the example the turn comes from (0 for the request turn).
Turn(role, kind, ex, images) ==
    [role |-> role, kind |-> kind, ex |-> ex, images |-> images]
\* An image part of a turn: the base64 string of example ex, or the
\* resized and JPEG-encoded request image img.
ExampleImage(ex) == [of |-> "example", id |-> ex]
EncodedImage(img) == [of |-> "request", id |-> img]

\* for example in few_shot_examples[:5]: the user turn, then the story turn
RECURSIVE FewShotTurns(_, _)
FewShotTurns(examples, story_role) ==
    IF examples = <<>> THEN <<>>
    ELSE <<Turn("user", "example", Head(examples).id,
                IF Head(examples).image
                    THEN <<ExampleImage(Head(examples).id)>>
                    ELSE <<>>),
           Turn(story_role, "story", Head(examples).id, <<>>)>>
         \o FewShotTurns(Tail(examples), story_role)

\* for img in images: resize, encode, append; then the request turn
RequestTurnReversed(images) ==
    Turn("user", "request", 0,
         [i \in 1..Len(images) |-> EncodedImage(images[Len(images) + 1 - i])])
RequestTurn(images) ==
    Turn("user", "request", 0,
         [i \in 1..Len(images) |-> EncodedImage(images[i])])

\* example['story'] raises KeyError when the key is missing: nothing is sent
MissingStory(few_shot_examples) ==
    \E i \in 1..Len(Take(few_shot_examples, few_shot_limit)) :
        ~few_shot_examples[i].story

\* OpenAIService.generate_story: message assembly
OpenAIService_messages(images, few_shot_examples) ==
    IF MissingStory(few_shot_examples) THEN <<>>
    ELSE FewShotTurns(Take(few_shot_examples, few_shot_limit), "assistant")
            \o <<RequestTurn(images)>>

\* AnthropicService.generate_story: message assembly
AnthropicService_messages(images, few_shot_examples) ==
    IF MissingStory(few_shot_examples) THEN <<>>
    ELSE FewShotTurns(Take(few_shot_examples, few_shot_limit), "assistant")
            \o <<RequestTurn(images)>>

\* GoogleGeminiService.generate_story: contents assembly
GoogleGeminiService_contents(images, few_shot_examples) ==
    IF MissingStory(few_shot_examples) THEN <<>>
    ELSE FewShotTurns(Take(few_shot_examples, few_shot_limit), "model")
            \o <<RequestTurn(images)>>

\* The role of a story turn in each provider's wire format
StoryRole(provider) == IF provider = "google" THEN "model" ELSE "assistant"

\* routes/image_search.py: num_results = min(int(...), 10)
search_num_results_unclamped(n) == n
search_num_results(n) == Min(n, max_results)
\* GoogleSearchService.search_images: params['num']
GoogleSearchService_num(num_results) == Min(num_results, max_results)
\* BingSearchService.search_images: params['count']
BingSearchService_count(num_results) == num_results

\* The inputs of a payload construction
ExampleShapes == {"both", "no_image", "no_story"}
ExamplesOfLength(n) ==
    {[i \in 1..n |-> [id |-> i,
                      image |-> sh[i] # "no_image",
                      story |-> sh[i] # "no_story"]] : sh \in [1..n -> ExampleShapes]}
SuppliedExamples == UNION {ExamplesOfLength(n) : n \in 0..MaxExamples}
ImageLists == UNION {[1..n -> 1..MaxImagesIn] : n \in 1..MaxImagesIn}
NumResults == (0 - 1)..MaxNumResults

Args(kind, provider, examples, images, num_results) ==
    [kind |-> kind, provider |-> provider, examples |-> examples,
     images |-> images, num_results |-> num_results]
NoArgs == Args("none", "none", <<>>, <<>>, 0)
StoryArgs ==
    {Args("story", p, ex, im, 0) :
        p \in {"openai", "anthropic", "google"}, ex \in SuppliedExamples,
        im \in ImageLists}
SearchArgs ==
    {Args("search", p, <<>>, <<>>, n) : p \in {"google", "bing"}, n \in NumResults}

Payload(messages, count) == [messages |-> messages, count |-> count]
NoPayload == Payload(<<>>, 0)

(***************************************************************************)
(* Sampling parameters: what the story route and the vision adapters make  *)
(* of the form fields model, top_k and thinking_budget.                    *)
(*                                                                         *)
(* A form field is "absent", the empty text "" or the text of an integer.  *)
(* A Python value is a record of its type and its text.                    *)
(***************************************************************************)
PyNone == [type |-> "NoneType", value |-> "None"]
PyStr(text) == [type |-> "str", value |-> text]
PyInt(text) == [type |-> "int", value |-> text]
\* The key is not in the payload
Missing == [type |-> "missing", value |-> "missing"]

\* x = request.form.get(name); if x: x = int(x)
form_int(field) ==
    IF field = "absent" THEN PyNone
    ELSE IF field = "" THEN PyStr("")
    ELSE PyInt(field)

\* The model names of the inputs and model.lower() on them
ModelNames ==
    {"", "gpt-4o", "gemini-1.5-flash", "gemini-2.0-flash-thinking-exp",
     "Gemini-2.0-Flash-THINKING"}
lower(model) ==
    IF model = "Gemini-2.0-Flash-THINKING" THEN "gemini-2.0-flash-thinking"
    ELSE model
\* "thinking" in s, for the lower-case names above
contains_thinking(s) ==
    s \in {"gemini-2.0-flash-thinking-exp", "gemini-2.0-flash-thinking"}

\* generate_story: the default model of a provider when none is given
default_model(provider, model) ==
    IF model # "" THEN model
    ELSE CASE provider = "openai" -> "gpt-4o"
           [] provider = "anthropic" -> "claude-3-5-sonnet-20241022"
           [] provider = "google" -> "gemini-1.5-flash"

\* The part of an outbound payload that holds top_k and the thinking budget
SamplingPayload(top_k, thinking_budget) ==
    [top_k |-> top_k, thinking_budget |-> thinking_budget]

\* OpenAIService.generate_story: payload (the route passes it neither top_k
\* nor thinking_budget)
OpenAIService_payload(model) == SamplingPayload(Missing, Missing)

\* AnthropicService.generate_story: payload
AnthropicService_payload(model, top_k) ==
    SamplingPayload(IF top_k # PyNone THEN top_k ELSE Missing, Missing)

\* GoogleGeminiService.generate_story: generationConfig
GoogleGeminiService_generation_config_ungated(model, top_k, thinking_budget) ==
    SamplingPayload(IF top_k # PyNone THEN top_k ELSE Missing,
                    IF thinking_budget # PyNone THEN thinking_budget ELSE Missing)
GoogleGeminiService_generation_config(model, top_k, thinking_budget) ==
    SamplingPayload(IF top_k # PyNone THEN top_k ELSE Missing,
                    IF thinking_budget # PyNone /\ contains_thinking(lower(model))
                        THEN thinking_budget
                        ELSE Missing)

(***************************************************************************)
(* ImageProcessor.  An image is its size, for resize_image, and its mode   *)
(* and pixels, for image_to_base64.  A pixel is [c, a]: one colour value   *)
(* and its alpha value (a palette entry's transparency for mode "P"; 255   *)
(* in the modes that have no transparency).                                *)
(***************************************************************************)
\* max_size=(2048, 2048)
default_max_size == 2048
\* Image.new('RGB', image.size, (255, 255, 255)) and the opaque alpha value
white == 255
opaque == 255

\* Bounds of the inputs
MaxDim == 9
SmallSize == 4
MaxPixels == 2

Abs(x) == IF x < 0 THEN 0 - x ELSE x
Floor(num, den) == num \div den
Ceil(num, den) == IF num % den = 0 THEN num \div den ELSE (num \div den) + 1

\* round_aspect(number, key) of Image.thumbnail: the floor or the ceiling
\* of the exact value, whichever has the smaller key, and at least 1.  The
\* keys are computed in floating point; where they are equal in exact
\* arithmetic the rounding errors decide, so both results are possible.
round_aspect(floor, ceil, key_floor, key_ceil) ==
    IF key_floor < key_ceil THEN {Max(floor, 1)}
    ELSE IF key_ceil < key_floor THEN {Max(ceil, 1)}
    ELSE {Max(floor, 1), Max(ceil, 1)}

\* Image.thumbnail(size): the sizes it may give the image, which fit in
\* size and keep the aspect ratio.  The keys abs(aspect - n / y) and
\* abs(aspect - x / n) (0 for n = 0) are compared cross-multiplied.
thumbnail_clip(width, height, x, y) == {<<Min(width, x), Min(height, y)>>}
thumbnail(width, height, x, y) ==
    IF x >= width /\ y >= height THEN {<<width, height>>}
    ELSE IF x * height >= width * y
        THEN {<<n, y>> : n \in round_aspect(
                  Floor(y * width, height), Ceil(y * width, height),
                  Abs(width * y - Floor(y * width, height) * height),
                  Abs(width * y - Ceil(y * width, height) * height))}
        ELSE {<<x, n>> : n \in round_aspect(
                  Floor(x * height, width), Ceil(x * height, width),
                  IF Floor(x * height, width) = 0 THEN 0
                  ELSE Abs(width * Floor(x * height, width) - x * height)
                          * Ceil(x * height, width),
                  Abs(width * Ceil(x * height, width) - x * height)
                      * Floor(x * height, width))}

\* ImageProcessor.resize_image: the sizes the image it returns may have
resize_image_to_fit(width, height, max_width, max_height) ==
    IF width * max_height >= height * max_width
        THEN {<<max_width, Max((max_width * height) \div width, 1)>>}
        ELSE {<<Max((max_height * width) \div height, 1), max_height>>}
resize_image(width, height, max_width, max_height) ==
    IF width > max_width \/ height > max_height
        THEN thumbnail(width, height, max_width, max_height)
        ELSE {<<width, height>>}

\* rgb_image.paste(image, mask): a pixel of the image over a white pixel
Blend(c, a) == (c * a + white * (opaque - a)) \div opaque

\* ImageProcessor.image_to_base64: the format, mode and pixels handed to
\* image.save, whose bytes are base64-encoded
image_to_base64_without_mask(mode, pixels, format) ==
    IF format = "JPEG" /\ mode \in {"RGBA", "LA", "P"}
        THEN [format |-> format, mode |-> "RGB",
              pixels |-> [i \in 1..Len(pixels) |-> [c |-> pixels[i].c, a |-> opaque]]]
        ELSE [format |-> format, mode |-> mode, pixels |-> pixels]
image_to_base64(mode, pixels, format) ==
    IF format = "JPEG" /\ mode \in {"RGBA", "LA", "P"}
        THEN [format |-> format, mode |-> "RGB",
              pixels |-> [i \in 1..Len(pixels) |->
                            [c |-> Blend(pixels[i].c, pixels[i].a), a |-> opaque]]]
        ELSE [format |-> format, mode |-> mode, pixels |-> pixels]

\* The inputs of ImageProcessor
LargeDims == {1000, 2047, 2048, 2049, 3000, 4096, 10000}
Dims == (1..MaxDim) \cup LargeDims
ResizeArgs ==
    {[kind |-> "resize", width |-> w, height |-> h, max_size |-> m] :
        w \in Dims, h \in Dims, m \in {SmallSize, default_max_size}}
Colours == {0, 100, white}
Alphas(mode) ==
    IF mode \in {"RGBA", "LA"} THEN {0, 128, opaque}
    ELSE IF mode = "P" THEN {0, opaque}
    ELSE {opaque}
Modes == {"RGB", "L", "RGBA", "LA", "P"}
PixelLists(mode) ==
    UNION {[1..n -> [c : Colours, a : Alphas(mode)]] : n \in 1..MaxPixels}
EncodeArgs ==
    UNION {{[kind |-> "encode", mode |-> mode, pixels |-> px, format |-> f] :
                px \in PixelLists(mode), f \in {"JPEG", "PNG"}} : mode \in Modes}

(***************************************************************************)
(* The DALL-E payload.  A field of the request JSON is "absent" or its     *)
(* value; the requested n is [present, value].                             *)
(***************************************************************************)
\* data.get(name, default)
data_get(field, default) == IF field = "absent" THEN default ELSE field
\* n = data.get('n', 1)
data_get_n(field) == IF field.present THEN field.value ELSE 1
\* model = data.get('model', ''); model = model or 'dall-e-3'
openai_image_model(field) ==
    IF data_get(field, "") = "" THEN "dall-e-3" ELSE data_get(field, "")

\* OpenAIImageService.generate_image: payload
OpenAIImageService_payload_any_n(model, size, quality, style, n) ==
    [model |-> model, prompt |-> "prompt", n |-> n, size |-> size,
     quality |-> IF model = "dall-e-3" THEN PyStr(quality) ELSE Missing,
     style |-> IF model = "dall-e-3" THEN PyStr(style) ELSE Missing]
OpenAIImageService_payload(model, size, quality, style, n) ==
    [model |-> model, prompt |-> "prompt",
     n |-> IF model = "dall-e-2" THEN n ELSE 1,
     size |-> size,
     quality |-> IF model = "dall-e-3" THEN PyStr(quality) ELSE Missing,
     style |-> IF model = "dall-e-3" THEN PyStr(style) ELSE Missing]

\* The inputs of the DALL-E branch of generate_image
ImageModelFields == {"absent", "", "dall-e-2", "dall-e-3", "DALL-E-2", "gpt-image-1"}
RequestedN == {[present |-> FALSE, value |-> 0]}
                 \cup {[present |-> TRUE, value |-> k] : k \in {1, 2, 10}}
DalleArgs ==
    {[kind |-> "dalle", model |-> m, n |-> n, size |-> sz, quality |-> q,
      style |-> st] :
        m \in ImageModelFields, n \in RequestedN, sz \in {"absent", "512x512"},
        q \in {"absent", "hd"}, st \in {"absent", "natural"}}

FormInts == {"absent", "", "0", "1024"}
SamplingArgs ==
    {[kind |-> "sampling", provider |-> p, model |-> m, top_k |-> k,
      thinking_budget |-> b] :
        p \in {"openai", "anthropic", "google"}, m \in ModelNames,
        k \in FormInts, b \in FormInts}

(***************************************************************************)
(* State.                                                                  *)
(*   req       the request being handled                                   *)
(*   pc        "route"    the handler has not run yet                      *)
(*             "adapter"  inside the retry wrapper, an attempt is about to *)
(*                        start                                            *)
(*             "poll"     inside the Replicate poll loop                   *)
(*             "respond"  the adapter call is over, the handler builds the *)
(*                        envelope                                         *)
(*             "done"     the response is sent                             *)
(*   attempt   tenacity's attempt_number                                   *)
(*   calls     outbound POST/GET calls that start an attempt               *)
(*   polls     Replicate status fetches made in the invocation             *)
(*   sleeps    seconds slept by the poll loop                              *)
(*   poll_i    iterations of the poll loop done in the current attempt     *)
(*   waits     the sleeps tenacity made between attempts, in seconds       *)
(*   timeouts  outbound calls that ended with requests' Timeout            *)
(*   last      the provider's answer to the latest outbound call           *)
(*   outcome   what the latest attempt ended with                          *)
(*   result    what the adapter call ended with, as the handler sees it    *)
(*   response  the HTTP response                                           *)
(*   fetches   the image URLs the story handler has fetched                *)
(*   call_timeout  the timeout of the latest outbound call (0: none yet)   *)
(*   call_args the API key and the number of images of the latest outbound *)
(*             call (NoCall: none yet)                                     *)
(* the state of the process that handles the requests:                     *)
(*   app       the Flask configuration and the module-level service        *)
(*             singletons                                                  *)
(*   parked    the variables above of a second request in progress, which  *)
(*             is not running at the moment                                *)
(*   turn      which of the two requests is running                        *)
(* and, for the payload constructions (pc "build", then "sent"):           *)
(*   args      the inputs of the construction                              *)
(*   payload   the outbound payload                                        *)
(***************************************************************************)
VARIABLES req, pc, attempt, calls, polls, sleeps, poll_i, waits, timeouts,
          last, outcome, result, response, args, payload, fetches,
          call_timeout, call_args, app, parked, turn

vars == <<req, pc, attempt, calls, polls, sleeps, poll_i, waits, timeouts,
          last, outcome, result, response, args, payload, fetches,
          call_timeout, call_args, app, parked, turn>>

\* No outbound call yet
NoCall == [api_key |-> 0, images |-> 0]

\* The variables of one request in progress
Context ==
    [req |-> req, pc |-> pc, attempt |-> attempt, calls |-> calls, polls |-> polls,
     sleeps |-> sleeps, poll_i |-> poll_i, waits |-> waits, timeouts |-> timeouts,
     last |-> last, outcome |-> outcome, result |-> result, response |-> response,
     fetches |-> fetches, call_timeout |-> call_timeout, call_args |-> call_args]
\* The variables of request r before its handler runs
NewContext(r) ==
    [req |-> r, pc |-> "route", attempt |-> 1, calls |-> 0, polls |-> 0,
     sleeps |-> 0, poll_i |-> 0, waits |-> <<>>, timeouts |-> 0,
     last |-> NoAnswer, outcome |-> Nothing, result |-> Nothing,
     response |-> NoResponse, fetches |-> 0, call_timeout |-> 0, call_args |-> NoCall]
\* No second request
NoContext == [pc |-> "none"]

\* config.py, Config, as loaded by create_app, and the attributes of the
\* service singletons the route modules create
App ==
    [config |-> [MAX_IMAGES_PER_REQUEST |-> MAX_IMAGES_PER_REQUEST,
                 REQUEST_TIMEOUT |-> REQUEST_TIMEOUT],
     services |-> [image_processor |-> "ImageProcessor"]]

\* What an adapter puts in its outbound call: the api_key argument in the
\* headers (or the URL), and for a story the images argument in the body
call_arguments_of_latest_call(r) ==
    IF parked.pc # "none" /\ parked.calls >= 1
       THEN parked.call_args
       ELSE [api_key |-> r.key_len,
             images |-> IF r.endpoint = "story" THEN r.image_count ELSE 0]
call_arguments(r) ==
    [api_key |-> r.key_len,
     images |-> IF r.endpoint = "story" THEN r.image_count ELSE 0]

Init ==
    /\ req \in Requests
    /\ pc = "route"
    /\ attempt = 1
    /\ calls = 0
    /\ polls = 0
    /\ sleeps = 0
    /\ poll_i = 0
    /\ waits = <<>>
    /\ timeouts = 0
    /\ last = NoAnswer
    /\ outcome = Nothing
    /\ result = Nothing
    /\ response = NoResponse
    /\ args = NoArgs
    /\ payload = NoPayload
    /\ fetches = 0
    /\ call_timeout = 0
    /\ call_args = NoCall
    /\ app = App
    /\ parked = NoContext
    /\ turn = 1

\* The handler up to its dispatch: an early return answers the request,
\* otherwise the adapter method is entered through its retry wrapper.
Enter(early) ==
    /\ pc = "route"
    /\ IF early # NoResponse
          THEN /\ response' = early
               /\ pc' = "done"
          ELSE /\ pc' = "adapter"
               /\ UNCHANGED response
    /\ UNCHANGED <<req, attempt, calls, polls, sleeps, poll_i, waits,
                   timeouts, last, outcome, result, args, payload, call_timeout,
                   call_args, app, parked, turn>>

generate_story ==
    /\ req.endpoint = "story"
    /\ fetches' = image_url_fetches(req)
    /\ Enter(generate_story_validation(req))

search_images ==
    /\ req.endpoint = "search"
    /\ UNCHANGED fetches
    /\ Enter(search_images_validation(req))

generate_image ==
    /\ req.endpoint = "image"
    /\ UNCHANGED fetches
    /\ Enter(generate_image_validation(req))

\* tenacity's Retrying.__call__ after an attempt that ended with o: a
\* returned value and an exception the retry predicate rejects pass through;
\* otherwise stop_after_attempt decides between RetryError (reraise is not
\* set) and a sleep of wait_exponential seconds followed by a new attempt.
tenacity_retry_until_stop(o) ==
    /\ outcome' = o
    /\ IF attempt >= stop_after_attempt
          THEN /\ result' = IF o.kind = "ok" THEN o ELSE RetryError
               /\ pc' = "respond"
               /\ UNCHANGED <<attempt, waits>>
       ELSE /\ attempt' = attempt + 1
            /\ waits' = Append(waits, wait_exponential(attempt))
            /\ pc' = "adapter"
            /\ UNCHANGED result
tenacity_retry(o) ==
    /\ outcome' = o
    /\ IF o.kind = "ok" \/ ~retry_if_exception(Adapter(req), o)
          THEN /\ result' = o
               /\ pc' = "respond"
               /\ UNCHANGED <<attempt, waits>>
       ELSE IF attempt >= stop_after_attempt
          THEN /\ result' = RetryError
               /\ pc' = "respond"
               /\ UNCHANGED <<attempt, waits>>
       ELSE /\ attempt' = attempt + 1
            /\ waits' = Append(waits, wait_exponential(attempt))
            /\ pc' = "adapter"
            /\ UNCHANGED result

AdapterBody(adapter, ans) ==
    CASE adapter = "OpenAI" -> OpenAIService_generate_story(ans)
      [] adapter = "Anthropic" -> AnthropicService_generate_story(ans)
      [] adapter = "Google Gemini" -> GoogleGeminiService_generate_story(ans)
      [] adapter = "OpenAI DALL-E" -> OpenAIImageService_generate_image(ans)
      [] adapter = "Stability AI" -> StabilityAIService_generate_image(ans)
      [] adapter = "Google" -> GoogleSearchService_search_images(ans)
      [] adapter = "Bing" -> BingSearchService_search_images(ans)

\* One attempt of a synchronous adapter: one outbound call and its
\* classification, then the retry wrapper.
Attempt ==
    /\ pc = "adapter"
    /\ Adapter(req) # "Replicate"
    /\ req.images # "truncated"
    /\ \E ans \in Answers :
          /\ last' = ans
          /\ timeouts' = IF ans.kind = "timeout" THEN timeouts + 1 ELSE timeouts
          /\ calls' = calls + 1
          /\ call_timeout' = adapter_timeout(Adapter(req))
          /\ call_args' = call_arguments(req)
          /\ tenacity_retry(AdapterBody(Adapter(req), ans))
    /\ UNCHANGED <<req, polls, sleeps, poll_i, response, args, payload, fetches,
                   app, parked, turn>>

\* One attempt of a vision adapter on an image whose pixel data cannot be
\* decoded: resize_image / image_to_base64 raise while the messages are
\* built, the except Exception clause raises APIError(..., 500), and no
\* outbound call is made.
AttemptWithoutCall ==
    /\ pc = "adapter"
    /\ req.images = "truncated"
    /\ tenacity_retry(APIError("request_failed", 500, Adapter(req)))
    /\ UNCHANGED <<req, calls, last, timeouts, polls, sleeps, poll_i, response,
                   args, payload, fetches, call_timeout,
                   call_args, app, parked, turn>>

\* The start of one attempt of ReplicateService.generate_image: the
\* prediction is submitted; an accepted submission enters the poll loop.
ReplicateSubmit ==
    /\ pc = "adapter"
    /\ Adapter(req) = "Replicate"
    /\ \E ans \in Answers :
          /\ last' = ans
          /\ timeouts' = IF ans.kind = "timeout" THEN timeouts + 1 ELSE timeouts
          /\ calls' = calls + 1
          /\ poll_i' = 0
          /\ call_timeout' = adapter_timeout("Replicate")
          /\ call_args' = call_arguments(req)
          /\ IF ReplicateService_create_prediction(ans).kind = "ok"
                THEN /\ pc' = "poll"
                     /\ UNCHANGED <<attempt, waits, outcome, result>>
                ELSE tenacity_retry(ReplicateService_create_prediction(ans))
    /\ UNCHANGED <<req, polls, sleeps, response, args, payload, fetches,
                   app, parked, turn>>

\* One iteration of the poll loop: sleep, fetch the status, classify.  The
\* iteration that leaves the loop without a terminal status raises the
\* generation timeout.
ReplicatePoll ==
    /\ pc = "poll"
    /\ poll_i < max_attempts
    /\ \E ans \in PollAnswers :
          /\ last' = ans
          /\ timeouts' = IF ans.kind = "timeout" THEN timeouts + 1 ELSE timeouts
          /\ sleeps' = sleeps + poll_sleep
          /\ polls' = polls + 1
          /\ poll_i' = poll_i + 1
          /\ call_timeout' = adapter_timeout("Replicate")
          /\ call_args' = call_arguments(req)
          /\ IF ReplicateService_poll(ans) # Nothing
                THEN tenacity_retry(ReplicateService_poll(ans))
             ELSE IF poll_i + 1 >= max_attempts
                THEN tenacity_retry(APIError("generation_timeout", 408, "Replicate"))
             ELSE UNCHANGED <<pc, attempt, waits, outcome, result>>
    /\ UNCHANGED <<req, calls, response, args, payload, fetches,
                   app, parked, turn>>

\* The handler's return: success envelope or one of its except clauses.
Respond ==
    /\ pc = "respond"
    /\ response' = route_response(req, result)
    /\ pc' = "done"
    /\ UNCHANGED <<req, attempt, calls, polls, sleeps, poll_i, waits,
                   timeouts, last, outcome, result, args, payload, fetches,
                   call_timeout,
                   call_args, app, parked, turn>>

Next ==
    \/ generate_story
    \/ search_images
    \/ generate_image
    \/ Attempt
    \/ AttemptWithoutCall
    \/ ReplicateSubmit
    \/ ReplicatePoll
    \/ Respond

Spec == Init /\ [][Next]_vars

(***************************************************************************)
(* The payload constructions as a specification of their own: the inputs   *)
(* are drawn in the initial state, one step builds the payload.            *)
(***************************************************************************)
PayloadInit ==
    /\ args \in StoryArgs \cup SearchArgs \cup SamplingArgs \cup DalleArgs
    /\ payload = NoPayload
    /\ pc = "build"
    /\ req = Request("story", "openai", min_key_length, TRUE, TRUE, "ok", 1, TRUE,
                     FALSE, FALSE, 1, 0)
    /\ fetches = 0
    /\ call_timeout = 0
    /\ call_args = NoCall
    /\ app = App
    /\ parked = NoContext
    /\ turn = 1
    /\ attempt = 1
    /\ calls = 0
    /\ polls = 0
    /\ sleeps = 0
    /\ poll_i = 0
    /\ waits = <<>>
    /\ timeouts = 0
    /\ last = NoAnswer
    /\ outcome = Nothing
    /\ result = Nothing
    /\ response = NoResponse

AdapterMessages(provider, images, few_shot_examples) ==
    CASE provider = "openai" -> OpenAIService_messages(images, few_shot_examples)
      [] provider = "anthropic" -> AnthropicService_messages(images, few_shot_examples)
      [] provider = "google" -> GoogleGeminiService_contents(images, few_shot_examples)

\* generate_story from the few-shot parsing to the adapter's message list
BuildStoryPayload ==
    /\ pc = "build"
    /\ args.kind = "story"
    /\ payload' = Payload(AdapterMessages(args.provider, args.images,
                                          story_few_shot_examples(args.examples)), 0)
    /\ pc' = "sent"
    /\ UNCHANGED <<req, attempt, calls, polls, sleeps, poll_i, waits, timeouts,
                   last, outcome, result, response, args, fetches, call_timeout,
                   call_args, app, parked, turn>>

\* search_images from the clamp of num_results to the adapter's params
BuildSearchParams ==
    /\ pc = "build"
    /\ args.kind = "search"
    /\ payload' = Payload(<<>>,
                          IF args.provider = "google"
                              THEN GoogleSearchService_num(search_num_results(args.num_results))
                              ELSE BingSearchService_count(search_num_results(args.num_results)))
    /\ pc' = "sent"
    /\ UNCHANGED <<req, attempt, calls, polls, sleeps, poll_i, waits, timeouts,
                   last, outcome, result, response, args, fetches, call_timeout,
                   call_args, app, parked, turn>>

\* generate_story from the parsing of top_k and thinking_budget to the
\* adapter's payload
BuildSamplingParams ==
    /\ pc = "build"
    /\ args.kind = "sampling"
    /\ payload' =
          CASE args.provider = "openai" ->
                  OpenAIService_payload(default_model(args.provider, args.model))
            [] args.provider = "anthropic" ->
                  AnthropicService_payload(default_model(args.provider, args.model),
                                           form_int(args.top_k))
            [] args.provider = "google" ->
                  GoogleGeminiService_generation_config(
                      default_model(args.provider, args.model),
                      form_int(args.top_k), form_int(args.thinking_budget))
    /\ pc' = "sent"
    /\ UNCHANGED <<req, attempt, calls, polls, sleeps, poll_i, waits, timeouts,
                   last, outcome, result, response, args, fetches, call_timeout,
                   call_args, app, parked, turn>>

\* generate_image, openai branch, from the defaults of the request fields to
\* the adapter's payload
BuildImagePayload ==
    /\ pc = "build"
    /\ args.kind = "dalle"
    /\ payload' = OpenAIImageService_payload(openai_image_model(args.model),
                                             data_get(args.size, "1024x1024"),
                                             data_get(args.quality, "standard"),
                                             data_get(args.style, "vivid"),
                                             data_get_n(args.n))
    /\ pc' = "sent"
    /\ UNCHANGED <<req, attempt, calls, polls, sleeps, poll_i, waits, timeouts,
                   last, outcome, result, response, args, fetches, call_timeout,
                   call_args, app, parked, turn>>

PayloadNext ==
    \/ BuildStoryPayload
    \/ BuildSearchParams
    \/ BuildSamplingParams
    \/ BuildImagePayload

PayloadSpec == PayloadInit /\ [][PayloadNext]_vars

(***************************************************************************)
(* ImageProcessor as a specification of its own: an image is drawn in the  *)
(* initial state, one step resizes or encodes it.                          *)
(***************************************************************************)
ImageInit ==
    /\ args \in ResizeArgs \cup EncodeArgs
    /\ payload = NoPayload
    /\ pc = "build"
    /\ req = Request("story", "openai", min_key_length, TRUE, TRUE, "ok", 1, TRUE,
                     FALSE, FALSE, 1, 0)
    /\ fetches = 0
    /\ call_timeout = 0
    /\ call_args = NoCall
    /\ app = App
    /\ parked = NoContext
    /\ turn = 1
    /\ attempt = 1
    /\ calls = 0
    /\ polls = 0
    /\ sleeps = 0
    /\ poll_i = 0
    /\ waits = <<>>
    /\ timeouts = 0
    /\ last = NoAnswer
    /\ outcome = Nothing
    /\ result = Nothing
    /\ response = NoResponse

\* ImageProcessor.resize_image
ResizeImage ==
    /\ pc = "build"
    /\ args.kind = "resize"
    /\ \E size \in resize_image(args.width, args.height,
                                 args.max_size, args.max_size) :
          payload' = [size |-> size]
    /\ pc' = "sent"
    /\ UNCHANGED <<req, attempt, calls, polls, sleeps, poll_i, waits, timeouts,
                   last, outcome, result, response, args, fetches, call_timeout,
                   call_args, app, parked, turn>>

\* ImageProcessor.image_to_base64
ImageToBase64 ==
    /\ pc = "build"
    /\ args.kind = "encode"
    /\ payload' = image_to_base64(args.mode, args.pixels, args.format)
    /\ pc' = "sent"
    /\ UNCHANGED <<req, attempt, calls, polls, sleeps, poll_i, waits, timeouts,
                   last, outcome, result, response, args, fetches, call_timeout,
                   call_args, app, parked, turn>>

ImageNext ==
    \/ ResizeImage
    \/ ImageToBase64

ImageSpec == ImageInit /\ [][ImageNext]_vars

(***************************************************************************)
(* Two requests in progress in one process.  The variables of a request    *)
(* are the locals of its handler and of the adapter method it calls; the   *)
(* process runs one request at a time and may switch to the other between  *)
(* any two steps.  app is all that the two share.                          *)
(***************************************************************************)
\* a story request with one image URL, to a known or an unknown provider
FirstRequests ==
    {Request("story", p, min_key_length, TRUE, TRUE, "ok", 1, TRUE, FALSE, FALSE,
             1, 1) : p \in {"openai", "other"}}
\* a search request with another key, with or without its query
SecondRequests ==
    {Request("search", "bing", min_key_length + 1, TRUE, TRUE, "ok", 1, TRUE, q,
             FALSE, 1, 0) : q \in BOOLEAN}

ConcurrentInit ==
    /\ req \in FirstRequests
    /\ parked \in {NewContext(r) : r \in SecondRequests}
    /\ turn = 1
    /\ app = App
    /\ pc = "route"
    /\ attempt = 1
    /\ calls = 0
    /\ polls = 0
    /\ sleeps = 0
    /\ poll_i = 0
    /\ waits = <<>>
    /\ timeouts = 0
    /\ last = NoAnswer
    /\ outcome = Nothing
    /\ result = Nothing
    /\ response = NoResponse
    /\ fetches = 0
    /\ call_timeout = 0
    /\ call_args = NoCall
    /\ args = NoArgs
    /\ payload = NoPayload

\* The process leaves the running request where it is and runs the other
Switch ==
    /\ parked.pc # "none"
    /\ parked' = Context
    /\ req' = parked.req
    /\ pc' = parked.pc
    /\ attempt' = parked.attempt
    /\ calls' = parked.calls
    /\ polls' = parked.polls
    /\ sleeps' = parked.sleeps
    /\ poll_i' = parked.poll_i
    /\ waits' = parked.waits
    /\ timeouts' = parked.timeouts
    /\ last' = parked.last
    /\ outcome' = parked.outcome
    /\ result' = parked.result
    /\ response' = parked.response
    /\ fetches' = parked.fetches
    /\ call_timeout' = parked.call_timeout
    /\ call_args' = parked.call_args
    /\ turn' = 3 - turn
    /\ UNCHANGED <<app, args, payload>>

ConcurrentNext ==
    \/ generate_story
    \/ search_images
    \/ Attempt
    \/ Respond
    \/ Switch

ConcurrentSpec == ConcurrentInit /\ [][ConcurrentNext]_vars

TypeOK ==
    /\ req \in Requests
    /\ pc \in {"route", "adapter", "poll", "respond", "done"}
    /\ attempt \in 1..stop_after_attempt
    /\ calls \in 0..stop_after_attempt
    /\ polls \in 0..(stop_after_attempt * max_attempts)
    /\ poll_i \in 0..max_attempts
    /\ timeouts \in 0..stop_after_attempt
    /\ Len(waits) = attempt - 1


(***************************************************************************)
(* Properties.                                                             *)
(***************************************************************************)
\* The adapters whose decorator names no retry predicate.
VisionAdapters == {"OpenAI", "Anthropic", "Google Gemini"}
SyncImageAdapters == {"OpenAI DALL-E", "Stability AI"}
RetriedAdapters == VisionAdapters \cup SyncImageAdapters \cup {"Replicate"}

Finished == pc \in {"respond", "done"}
Is2xx(status) == status >= 200 /\ status <= 299
Is4xx(status) == status >= 400 /\ status <= 499

\* last answers the call that started the current attempt (for Replicate:
\* the submission), not a status poll.
LastIsAttemptCall == calls >= 1 /\ poll_i = 0 /\ pc # "poll"
LastIsPoll == Adapter(req) = "Replicate" /\ poll_i >= 1

\* C1: in a vision or text-to-image adapter (Replicate: the submission) an
\* attempt answered with HTTP 401 is the last provider call of the
\* invocation, which ends with the invalid-API-key error, status 401.
C1_AuthErrorEndsInvocation ==
    (/\ Adapter(req) \in RetriedAdapters
     /\ LastIsAttemptCall
     /\ last.kind = "http"
     /\ last.status = 401)
    => (/\ Finished
        /\ result = APIError("invalid_key", 401, Adapter(req)))

\* C2: when every attempt of a vision or synchronous text-to-image adapter
\* times out, the invocation ends after exactly 3 provider calls with the
\* timeout error, status 408, naming the provider.
C2_TimeoutsSurfaceAfterThreeCalls ==
    (/\ Adapter(req) \in VisionAdapters \cup SyncImageAdapters
     /\ Finished
     /\ calls >= 1
     /\ timeouts = calls)
    => (/\ calls = 3
        /\ result = APIError("timeout", 408, Adapter(req)))

\* C3: the waits between the attempts of one invocation are strictly
\* increasing, the first is 2 seconds and none exceeds 10 seconds.
C3_WaitsStrictlyIncreasing ==
    /\ Len(waits) >= 1 => waits[1] = 2
    /\ \A i \in 1..Len(waits) : waits[i] <= 10
    /\ \A i \in 1..Len(waits) : \A j \in 1..Len(waits) : i < j => waits[i] < waits[j]

\* The errors an adapter raises for a provider answer it classified, as
\* opposed to the catch-all "request failed" of its except Exception clause.
ClassifiedErrors ==
    {"invalid_key", "rate_limit", "provider_message", "raw_body", "timeout",
     "poll_failed", "generation_failed", "generation_timeout"}

\* C4: a classified error raised by an adapter is what the endpoint
\* answers: same status code, provider name in the envelope.
C4_ClassifiedErrorReachesResponse ==
    (pc = "done" /\ outcome.kind = "APIError" /\ outcome.msg \in ClassifiedErrors)
    => (/\ response.error
        /\ response.status = outcome.status
        /\ response.provider = outcome.provider
        /\ response.provider = Adapter(req))

\* C5: a Replicate attempt whose 30 polls all saw a non-terminal status ends
\* the invocation with the generation-timeout error, status 408, provider
\* Replicate, and that is what the endpoint answers.
C5_PollBudgetExhaustedSurfacesTimeout ==
    (/\ LastIsPoll
     /\ poll_i = max_attempts
     /\ ReplicateService_poll(last) = Nothing)
    => (/\ Finished
        /\ result = APIError("generation_timeout", 408, "Replicate")
        /\ pc = "done" => /\ response.error
                          /\ response.status = 408
                          /\ response.provider = "Replicate")

\* C6: a Replicate status poll answered with a non-2xx HTTP status is the
\* last provider call of the invocation, which fails with an error carrying
\* that status.
C6_PollHttpFailureIsFatal ==
    (/\ LastIsPoll
     /\ last.kind = "http"
     /\ ~Is2xx(last.status))
    => (/\ Finished
        /\ result.kind = "APIError"
        /\ result.status = last.status)

\* C7: the poll that observes succeeded ends the invocation with that
\* poll's output, the poll that observes failed ends it with the
\* generation-failed error, status 500; neither is followed by a provider
\* call.
C7_TerminalStatusEndsInvocation ==
    (/\ LastIsPoll
     /\ last.kind = "http"
     /\ last.status = 200)
    => /\ last.pstatus = "succeeded" =>
            (Finished /\ result = Returned("output"))
       /\ last.pstatus = "failed" =>
            (Finished /\ result = APIError("generation_failed", 500, "Replicate"))

\* C8: a Replicate invocation submits the prediction once and makes at
\* most 30 status fetches in total, each after one sleep.
C8_OneSubmissionAtMostThirtyPolls ==
    Adapter(req) = "Replicate"
    => (/\ calls <= 1
        /\ polls <= max_attempts
        /\ sleeps = poll_sleep * polls)

\* C9: a request that failed at the provider is answered 401, 429, 408 or
\* the provider's own 4xx code when the adapter's error carries one of
\* these, and 500 in every other case.
C9_FailureStatusMapping ==
    (pc = "done" /\ response.error /\ calls >= 1)
    => response.status = (IF outcome.kind = "APIError" /\ Is4xx(outcome.status)
                             THEN outcome.status
                             ELSE 500)

\* C10: an envelope with an error field has a non-2xx status and a 2xx
\* response carries the result field, whatever status the provider returns.
C10_ErrorEnvelopeIsNon2xx ==
    pc = "done"
    => (/\ response.error => ~Is2xx(response.status)
        /\ Is2xx(response.status) => response.result)

(***************************************************************************)
(* Payload construction                                                    *)
(***************************************************************************)
SentStory == pc = "sent" /\ args.kind = "story"
SentSearch == pc = "sent" /\ args.kind = "search"
TurnsOfKind(kind) ==
    {i \in DOMAIN payload.messages : payload.messages[i].kind = kind}
\* The number of few-shot pairs of an outbound message list of odd length
Pairs == (Len(payload.messages) - 1) \div 2

\* C11: for a supplied list of few-shot examples of any length, the
\* outbound payload of the OpenAI, Anthropic and Gemini adapters has
\* prior-turn pairs for at most 5 examples, and every example included is
\* one of the first 5 supplied.
C11_AtMostFirstFiveExamples ==
    SentStory =>
        /\ Cardinality(TurnsOfKind("example")) <= 5
        /\ Cardinality(TurnsOfKind("story")) <= 5
        /\ \A i \in TurnsOfKind("example") \cup TurnsOfKind("story") :
              /\ payload.messages[i].ex \in 1..5
              /\ payload.messages[i].ex <= Len(args.examples)

\* More than 5 examples were supplied and 5 pairs were sent.
C11_Witness ==
    /\ SentStory
    /\ Len(args.examples) > 5
    /\ Cardinality(TurnsOfKind("story")) = 5

\* C12: in the outbound message list of each vision adapter every used
\* few-shot example contributes a user turn immediately followed by an
\* assistant/model turn with that example's story, the examples appear in
\* supplied order, and the request turn is the single last turn and holds
\* every request image in input order.
C12_PairsInOrderThenRequestTurn ==
    SentStory =>
        /\ Len(payload.messages) % 2 = 1
        /\ \A j \in 1..Pairs :
              /\ payload.messages[2 * j - 1].role = "user"
              /\ payload.messages[2 * j - 1].kind = "example"
              /\ payload.messages[2 * j].role = StoryRole(args.provider)
              /\ payload.messages[2 * j].kind = "story"
              /\ payload.messages[2 * j].ex = payload.messages[2 * j - 1].ex
        /\ \A j \in 1..(Pairs - 1) :
              payload.messages[2 * j - 1].ex < payload.messages[2 * j + 1].ex
        /\ TurnsOfKind("request") = {Len(payload.messages)}
        /\ payload.messages[Len(payload.messages)].role = "user"
        /\ Len(payload.messages[Len(payload.messages)].images) = Len(args.images)
        /\ \A i \in 1..Len(args.images) :
              payload.messages[Len(payload.messages)].images[i]
                  = [of |-> "request", id |-> args.images[i]]

\* Two pairs precede a request turn with two different images.
C12_Witness ==
    /\ SentStory
    /\ Pairs >= 2
    /\ Len(args.images) = 2
    /\ args.images[1] # args.images[2]

\* C14: for every requested num_results the result count sent to Google or
\* Bing equals min(num_results, 10) and is never greater than 10.
C14_ResultCountClamped ==
    SentSearch =>
        /\ payload.count = (IF args.num_results <= 10 THEN args.num_results ELSE 10)
        /\ payload.count <= 10

\* Bing was asked for more than 10 results and 10 were requested of it.
C14_Witness ==
    /\ SentSearch
    /\ args.provider = "bing"
    /\ args.num_results > 10
    /\ payload.count = 10

(***************************************************************************)
(* Search adapters and request validation                                  *)
(***************************************************************************)
TransportFailure == last.kind \in {"timeout", "connerr"}

\* C13: the Google and Bing search adapters follow the retry rule of the
\* vision adapters: a call that fails with a connection error or a timeout
\* is attempted 3 times in total before the error surfaces.
C13_SearchTransportFailureRetried ==
    (Adapter(req) \in SearchAdapters /\ Finished /\ TransportFailure) => calls = 3

\* C15: a Google search request with a missing or blank cse_id makes no
\* outbound call, and when the request is otherwise valid it is answered
\* 400 with the validation error that names the cse_id.
BlankCse == req.endpoint = "search" /\ req.provider = "google" /\ req.cse_empty
MissingResultField ==
    /\ Adapter(req) \in SearchAdapters
    /\ LastIsAttemptCall
    /\ last.kind = "http" /\ last.status = 200 /\ last.body = "nofield"
C16_MissingResultFieldIsEmptyList ==
    MissingResultField =>
        /\ Finished
        /\ calls = 1
        /\ result = Returned("no_images")
        /\ pc = "done" =>
              response = Response(200, FALSE, req.provider, TRUE, "no_images")

\* Google answered 200 without items and the endpoint answered 200.
C16_Witness ==
    /\ MissingResultField
    /\ req.provider = "google"
    /\ pc = "done"
    /\ response.status = 200
    /\ ~response.error

\* C17: a story request that passes the earlier checks and has 0 loaded
\* images is answered 400 "at least one image required", one with more than
\* 10 is answered 400 "too many images"; neither makes a provider call.
ReachesImageCountCheck ==
    /\ req.endpoint = "story"
    /\ req.key_len >= 10
    /\ req.params_ok
    /\ req.images = "ok"
C17_BadImageCountRejected ==
    (ReachesImageCountCheck /\ (req.image_count = 0 \/ req.image_count > 10)) =>
        /\ calls = 0
        /\ pc \in {"route", "done"}
        /\ pc = "done" =>
              response = ErrorOnly(400, IF req.image_count = 0
                                            THEN "at_least_one_image"
                                            ELSE "too_many_images")

\* A story request with 11 images has been answered "too many images".
C17_Witness ==
    /\ ReachesImageCountCheck
    /\ req.image_count = 11
    /\ pc = "done"
    /\ response = ErrorOnly(400, "too_many_images")
    /\ calls = 0

\* C18: in all three endpoints a request with a missing or too-short API
\* key, an empty query or prompt, a prompt longer than 4000 characters, an
\* unknown provider, an unparsable sampling parameter, invalid image_urls
\* or few_shot_examples JSON, or a bad image count never results in a call
\* to a provider adapter.
InvalidInput ==
    \/ req.key_len < 10
    \/ req.provider = "other"
    \/ req.endpoint = "search" /\ req.query_empty
    \/ req.endpoint = "image" /\ (req.prompt_len = 0 \/ req.prompt_len > 4000)
    \/ req.endpoint = "story" /\
          (\/ ~req.params_ok
           \/ req.images = "bad_json"
           \/ ~req.few_shot_ok
           \/ req.image_count = 0
           \/ req.image_count > 10)
C18_InvalidInputNeverReachesAdapter ==
    InvalidInput =>
        /\ calls = 0
        /\ polls = 0
        /\ pc \in {"route", "done"}
        /\ pc = "done" => response.error

\* An image request with a too-short key has been rejected without a call.
C18_Witness ==
    /\ req.endpoint = "image"
    /\ req.key_len > 0 /\ req.key_len < 10
    /\ req.prompt_len = 1 /\ req.has_data /\ req.provider # "other"
    /\ pc = "done"
    /\ response.status = 401
    /\ calls = 0

(***************************************************************************)
(* Response mapping and error classification of the vision adapters        *)
(***************************************************************************)
\* C19: when a vision provider answers 200 with zero choices / content
\* blocks / candidates, the invocation fails with an error surfaced to the
\* caller and never returns a story.
C19_EmptyAnswerEndsInvocationWithError ==
    (/\ Adapter(req) \in VisionAdapters
     /\ LastIsAttemptCall
     /\ last.kind = "http" /\ last.status = 200 /\ last.body = "nofield")
        => (Finished /\ result.kind # "ok")

\* C20: when a provider answers with a non-2xx status other than 401 and
\* 429, the error the adapter raises carries that status, and its message
\* is the provider's own message when the body has one and the raw body
\* otherwise, for every shape of the body.
C20_ProviderErrorMirrorsStatusAndBody ==
    (/\ Adapter(req) \in {"OpenAI", "Anthropic"}
     /\ LastIsAttemptCall
     /\ last.kind = "http"
     /\ ~Is2xx(last.status) /\ last.status \notin {401, 429})
        => outcome = APIError(ErrorMessage(last.body), last.status, Adapter(req))

(***************************************************************************)
(* Image loading, call timeouts, order of validation, the except clauses   *)
(* of the routes and the end of an invocation                              *)
(***************************************************************************)
\* C23: a story request with an image URL that cannot be fetched, or an
\* image (file or URL) whose content cannot be decoded as a raster image,
\* fails with status 400 and causes no provider call.
UnloadableImage ==
    /\ req.endpoint = "story"
    /\ req.images \in {"url_unreachable", "url_undecodable", "file_undecodable",
                       "truncated"}
C23_UnloadableImageAnswered400 ==
    (UnloadableImage /\ pc = "done") => (response.status = 400 /\ calls = 0)

\* C26: every outbound call of a vision adapter uses a timeout of exactly
\* 2 x REQUEST_TIMEOUT and every outbound call of DALL-E and Stability one
\* of exactly 3 x REQUEST_TIMEOUT; an expired timeout fails only the call
\* it belongs to: that call is classified as the timeout error, and a later
\* call of the invocation that is answered well still yields its result.
SuccessAnswer == HttpAnswer(200, "ok")
C26_CallTimeouts ==
    /\ (Adapter(req) \in VisionAdapters /\ calls >= 1) =>
            call_timeout = 2 * REQUEST_TIMEOUT
    /\ (Adapter(req) \in SyncImageAdapters /\ calls >= 1) =>
            call_timeout = 3 * REQUEST_TIMEOUT
    /\ (Adapter(req) \in VisionAdapters \cup SyncImageAdapters /\ calls >= 1) =>
          /\ last = TimeoutAnswer => outcome = APIError("timeout", 408, Adapter(req))
          /\ (timeouts >= 1 /\ last = SuccessAnswer) =>
                (Finished /\ result.kind = "ok")

\* A vision call timed out and the next call, with the same timeout of 60
\* seconds, returned the story.
C26_Witness ==
    /\ Adapter(req) \in VisionAdapters
    /\ pc = "done"
    /\ timeouts = 1
    /\ calls = 2
    /\ call_timeout = 60
    /\ response.status = 200

\* C27: in the story endpoint a request that is rejected for a bad API
\* key, an unparsable sampling parameter, a bad image count, invalid
\* few_shot_examples JSON or an unknown provider is rejected before any
\* image URL is fetched.
ValidationRejections ==
    {"api_key_required", "api_key_too_short", "invalid_parameter_value",
     "at_least_one_image", "too_many_images", "invalid_few_shot_examples_json",
     "invalid_provider"}
C27_RejectedBeforeAnyFetch ==
    (/\ req.endpoint = "story"
     /\ pc = "done"
     /\ calls = 0
     /\ response.msg \in ValidationRejections)
        => fetches = 0

\* C29: an exception other than an APIError that escapes an adapter or the
\* route body is answered with HTTP 500 and an envelope that has an error
\* message and no provider field.
UnclassifiedException == result.kind \in {"RetryError", "Exception"}
C29_UnclassifiedExceptionIsGeneric500 ==
    /\ (pc = "done" /\ UnclassifiedException) =>
            response = Response(500, TRUE, "absent", FALSE, result.msg)
    /\ (pc = "done" /\ req.endpoint = "story" /\ req.images = "urls_not_list"
            /\ req.key_len >= 10) =>
            response = Response(500, TRUE, "absent", FALSE, "TypeError")

\* A KeyError escaped a search adapter and was answered 500 without a
\* provider field.
C29_Witness ==
    /\ pc = "done"
    /\ result = OtherException("KeyError")
    /\ response.status = 500
    /\ response.provider = "absent"

\* C30: in every retry-wrapped adapter the first attempt that succeeds ends
\* the invocation: its result is returned and no further provider call is
\* made, so a success of the first attempt means exactly one call, and a
\* success on attempt k after k-1 failures is returned as a success.
C30_FirstSuccessEndsInvocation ==
    /\ (Adapter(req) \notin {"none", "Replicate"} /\ LastIsAttemptCall
            /\ last = SuccessAnswer) =>
          /\ Finished
          /\ result.kind = "ok"
          /\ calls = attempt
          /\ pc = "done" => (response.status = 200 /\ ~response.error)
    /\ (LastIsPoll /\ last = PollAnswer(200, "succeeded")) =>
          /\ Finished
          /\ result.kind = "ok"
          /\ calls = attempt
          /\ pc = "done" => (response.status = 200 /\ ~response.error)
    /\ (Finished /\ result.kind = "ok") =>
          /\ calls = attempt
          /\ Adapter(req) # "Replicate" => last.kind = "http" /\ last.status = 200

\* The third call of a vision adapter succeeded after two timeouts and the
\* story was returned with status 200.
C30_Witness ==
    /\ Adapter(req) \in VisionAdapters
    /\ pc = "done"
    /\ attempt = 3
    /\ timeouts = 2
    /\ calls = 3
    /\ last = SuccessAnswer
    /\ response.status = 200

(***************************************************************************)
(* Sampling parameters in the outbound payload                             *)
(***************************************************************************)
SentSampling == pc = "sent" /\ args.kind = "sampling"
\* The model names of the inputs that contain "thinking" in some case
ThinkingModelNames == {"gemini-2.0-flash-thinking-exp", "Gemini-2.0-Flash-THINKING"}

Resized == pc = "sent" /\ args.kind = "resize"
Encoded == pc = "sent" /\ args.kind = "encode"

\* C21: for every image whose width or height exceeds the bound, the image
\* resize_image yields has its larger dimension equal to the bound, and its
\* other dimension is less than 1 away from the value that keeps the
\* width:height ratio of the input.
C21_LargerDimensionEqualsBound ==
    (Resized /\ (args.width > args.max_size \/ args.height > args.max_size)) =>
        /\ Max(payload.size[1], payload.size[2]) = args.max_size
        /\ IF args.width >= args.height
              THEN /\ payload.size[1] = args.max_size
                   /\ Abs(payload.size[2] * args.width - args.max_size * args.height)
                         < args.width
              ELSE /\ payload.size[2] = args.max_size
                   /\ Abs(payload.size[1] * args.height - args.max_size * args.width)
                         < args.height

\* A 3000 x 2049 image was resized to width 2048 and a smaller height.
C21_Witness ==
    /\ Resized
    /\ args.width = 3000 /\ args.height = 2049 /\ args.max_size = 2048
    /\ payload.size[1] = 2048
    /\ payload.size[2] < 2048

\* C22: image_to_base64 with target JPEG on an image with an alpha or
\* palette channel encodes an opaque RGB image composited on white: fully
\* transparent pixels come out white, fully opaque pixels keep their
\* colour, and no output pixel carries transparency.
C22_AlphaCompositedOnWhite ==
    (Encoded /\ args.format = "JPEG" /\ args.mode \in {"RGBA", "LA", "P"}) =>
        /\ payload.format = "JPEG"
        /\ payload.mode = "RGB"
        /\ Len(payload.pixels) = Len(args.pixels)
        /\ \A i \in 1..Len(args.pixels) :
              /\ payload.pixels[i].a = 255
              /\ args.pixels[i].a = 0 => payload.pixels[i].c = 255
              /\ args.pixels[i].a = 255 => payload.pixels[i].c = args.pixels[i].c

\* A fully transparent black pixel of an RGBA image came out white.
C22_Witness ==
    /\ Encoded
    /\ args.format = "JPEG" /\ args.mode = "RGBA"
    /\ args.pixels[1] = [c |-> 0, a |-> 0]
    /\ payload.pixels[1] = [c |-> 255, a |-> 255]

\* C28: resize_image leaves the dimensions unchanged whenever width and
\* height are both within the bound, a dimension equal to the bound
\* included.
C28_WithinBoundUnchanged ==
    (Resized /\ args.width <= args.max_size /\ args.height <= args.max_size) =>
        payload.size = <<args.width, args.height>>

\* An image as wide as the bound kept its size.
C28_Witness ==
    /\ Resized
    /\ args.width = 2048 /\ args.height = 1000 /\ args.max_size = 2048
    /\ payload.size = <<2048, 1000>>

(***************************************************************************)
(* Two concurrent requests                                                 *)
(***************************************************************************)
\* The early return of the handler of request r, NoResponse when it has none
HandlerValidation(r) ==
    CASE r.endpoint = "story" -> generate_story_validation(r)
      [] r.endpoint = "search" -> search_images_validation(r)
      [] r.endpoint = "image" -> generate_image_validation(r)

\* The provider calls of the request with variables c carry its own key and
\* images, and a request its handler rejects makes none
OwnCalls(c) ==
    /\ c.calls >= 1 => /\ c.call_args.api_key = c.req.key_len
                       /\ c.call_args.images =
                              IF c.req.endpoint = "story" THEN c.req.image_count ELSE 0
                       /\ c.call_timeout = adapter_timeout(Adapter(c.req))
    /\ HandlerValidation(c.req) # NoResponse => c.calls = 0

\* The answer of the request with variables c is the one its own input and
\* its own provider answers give when it runs alone
AnsweredAsAlone(c) ==
    c.pc = "done" =>
        IF HandlerValidation(c.req) # NoResponse
           THEN c.response = HandlerValidation(c.req)
        ELSE /\ c.response = route_response(c.req, c.result)
             /\ c.calls = c.attempt
             /\ c.result = IF c.outcome.kind # "ok" /\ c.attempt = stop_after_attempt
                                /\ retry_if_exception(Adapter(c.req), c.outcome)
                              THEN RetryError
                              ELSE AdapterBody(Adapter(c.req), c.last)

Isolated ==
    /\ app = App
    /\ OwnCalls(Context) /\ OwnCalls(parked)
    /\ AnsweredAsAlone(Context) /\ AnsweredAsAlone(parked)

IsolatedStep ==
    /\ app' = app
    /\ turn' = turn => parked' = parked
    /\ turn' # turn => parked' = Context /\ Context' = parked

NonTerminalStatuses == PredictionStatuses \ {"succeeded", "failed"}
PolledNonTerminal ==
    /\ LastIsPoll
    /\ last.kind = "http"
    /\ last.status = 200
    /\ last.pstatus \in NonTerminalStatuses
\* such a poll leaves the loop running while the budget lasts
NonTerminalKeepsPolling == (PolledNonTerminal /\ poll_i < max_attempts) => pc = "poll"

\* C31: a Replicate poll that sees starting, processing or an unrecognised
\* status never ends the loop before the 30th poll, and after the 30th the
\* invocation ends with the generation-timeout error.
C31_NonTerminalStatusRunsToTimeout ==
    /\ NonTerminalKeepsPolling
    /\ (PolledNonTerminal /\ poll_i = max_attempts)
          => (/\ pc \in {"respond", "done"}
              /\ outcome = APIError("generation_timeout", 408, "Replicate")
              /\ result = outcome)

\* C32: in the Gemini adapter an attempt answered HTTP 400 with a body that
\* mentions API_KEY_INVALID raises the invalid-API-key error with status
\* 401, an attempt answered with any other HTTP 400 raises an error with
\* status 400, and an attempt answered HTTP 401 raises one with status 401.
C32_GeminiBadRequestClassification ==
    (/\ Adapter(req) = "Google Gemini"
     /\ LastIsAttemptCall
     /\ last.kind = "http")
        => /\ (last.status = 400 /\ last.body = "keyinvalid")
                 => outcome = APIError("invalid_key", 401, "Google Gemini")
           /\ (last.status = 400 /\ last.body # "keyinvalid")
                 => (outcome.kind = "APIError" /\ outcome.status = 400)
           /\ last.status = 401
                 => (outcome.kind = "APIError" /\ outcome.status = 401)

\* A DALL-E payload has been built
DallePayloadSent == pc = "sent" /\ args.kind = "dalle"

\* C33: the n of a DALL-E payload is the requested n (1 when the request
\* names none) when the model is dall-e-2 and 1 for every other model, and
\* the payload has quality and style exactly when the model is dall-e-3,
\* the model being dall-e-3 when the request names none.
C33_DallePayloadFields ==
    DallePayloadSent =>
        /\ payload.model = (IF args.model \in {"absent", ""} THEN "dall-e-3"
                                                              ELSE args.model)
        /\ payload.n = (IF payload.model # "dall-e-2" THEN 1
                        ELSE IF args.n.present THEN args.n.value ELSE 1)
        /\ (payload.quality # Missing) <=> (payload.model = "dall-e-3")
        /\ (payload.style # Missing) <=> (payload.model = "dall-e-3")
\* ten images asked of dall-e-3: one is requested, with quality and style
C33_Witness ==
    /\ DallePayloadSent
    /\ args.model = "absent"
    /\ args.n.present /\ args.n.value = 10
    /\ payload.n = 1
    /\ payload.quality = PyStr("hd")
    /\ payload.style = PyStr("vivid")

\* A sampling parameter of an outbound payload, set against its form field:
\* present only as an integer and only for a field that was given a value
ForwardedAsParsedInt(param, field) ==
    param # Missing => (param.type = "int" /\ field \notin {"absent", ""})

\* C34: top_k and the thinking budget of an outbound Anthropic or Gemini
\* payload are integers parsed from the request, and an absent or empty
\* request field is never forwarded.
C34_SamplingParamsAreParsedInts ==
    (SentSampling /\ args.provider \in {"anthropic", "google"})
        => /\ ForwardedAsParsedInt(payload.top_k, args.top_k)
           /\ ForwardedAsParsedInt(payload.thinking_budget, args.thinking_budget)

====
